---- MODULE Spec2Model ----
(***************************************************************************)
(* Model of the libR-sys build script (src/rust/libR-sys/build.rs).        *)
(*                                                                         *)
(* The script is a single-threaded pipeline:                               *)
(*   probe_r_paths -> cargo signals -> bindgen builder (TARGET) ->         *)
(*   generate -> R_VERSION extraction -> write $OUT_DIR/bindings.rs ->     *)
(*   optional write $LIBRSYS_BINDINGS_DIR/bindings.rs.                     *)
(*                                                                         *)
(* Rust Strings are modelled as sequences of Unicode code points, raw      *)
(* process output and raw environment values as sequences of bytes.        *)
(* Everything outside the script (the environment, the R executable, the   *)
(* binding generator, the file system) is an input chosen with \E at the   *)
(* point where the script observes it.                                     *)
(***************************************************************************)
EXTENDS Integers, Sequences, FiniteSets, TLC

VARIABLES
    windows,        \* cfg!(target_os = "windows") of the compiled script
    env,            \* the process environment, as far as it has been read
    pc,             \* position of main
    rout,           \* result of Command::output() inside probe_r_paths
    probe,          \* io::Result<InstallationPaths> returned by probe_r_paths
    details,        \* main's `details` once unwrapped
    spawned,        \* R subprocesses started, with the -e expression used
    stdout,         \* lines printed by println!
    builder,        \* the configured bindgen builder
    generated,      \* number of calls of Builder::generate
    bindings,       \* the generated bindings (source text)
    files,          \* what main wrote to the primary / secondary bindings.rs
    exit            \* process exit status

vars == <<windows, env, pc, rout, probe, details, spawned, stdout, builder,
          generated, bindings, files, exit>>

----------------------------------------------------------------------------
(* Bounds of the model.                                                    *)

\* longest standard output of the R subprocess, in bytes
MaxOut == 6
\* most `pub const` items in the generated bindings
MaxItems == 2

----------------------------------------------------------------------------
(* Characters.                                                             *)

LF == 10
CR == 13
Slash == 47
Backslash == 92
ChA == 97
BadByte == 255
Replacement == 65533
Zero == 48

\* "include", "lib", "bin"
StrInclude == <<105, 110, 99, 108, 117, 100, 101>>
StrLib == <<108, 105, 98>>
StrBin == <<98, 105, 110>>

RECURSIVE SeqsUpTo(_, _)
SeqsUpTo(S, n) ==
    IF n = 0 THEN {<<>>}
    ELSE LET shorter == SeqsUpTo(S, n - 1)
         IN  shorter \cup {Append(s, x) : s \in {t \in shorter : Len(t) = n - 1}, x \in S}

Last(s) == s[Len(s)]
Front(s) == SubSeq(s, 1, Len(s) - 1)

----------------------------------------------------------------------------
(* std::env::var: Ok(value) only when the variable is present and its      *)
(* value is valid Unicode; Err(NotPresent) or Err(NotUnicode) otherwise.   *)

Unset == [kind |-> "unset", val |-> <<>>]
Raw(bytes) == [kind |-> "set", val |-> bytes]

IsValidUtf8(bytes) == \A i \in 1..Len(bytes) : bytes[i] < 128

EnvVarIsOk(v) == v.kind = "set" /\ IsValidUtf8(v.val)

\* mutant: invalid bytes replaced by "?"
FromUtf8Lossy_QuestionMark(bytes) ==
    [i \in 1..Len(bytes) |-> IF bytes[i] < 128 THEN bytes[i] ELSE 63]

\* String::from_utf8_lossy: invalid bytes become U+FFFD
FromUtf8Lossy(bytes) ==
    [i \in 1..Len(bytes) |-> IF bytes[i] < 128 THEN bytes[i] ELSE Replacement]

----------------------------------------------------------------------------
(* Path::join(base, comp) for a relative comp, then to_str().              *)

IsSep(c) == c = Slash \/ (windows /\ c = Backslash)
MainSep == IF windows THEN Backslash ELSE Slash

PathJoin(base, comp) ==
    IF base = <<>> THEN comp
    ELSE IF IsSep(Last(base)) THEN base \o comp
    ELSE base \o <<MainSep>> \o comp

----------------------------------------------------------------------------
(* str::lines.                                                             *)

RECURSIVE SplitInclusive(_, _, _)
SplitInclusive(s, cur, acc) ==
    IF s = <<>> THEN (IF cur = <<>> THEN acc ELSE Append(acc, cur))
    ELSE IF Head(s) = LF
         THEN SplitInclusive(Tail(s), <<>>, Append(acc, Append(cur, LF)))
         ELSE SplitInclusive(Tail(s), Append(cur, Head(s)), acc)

\* One line without its terminator "\n" or "\r\n".  A bare "\r" ending the
\* last line is kept by current standard libraries and dropped by
\* older ones (legacy).
StripLine(piece, legacy) ==
    LET hadLF == piece # <<>> /\ Last(piece) = LF
        l1 == IF hadLF THEN Front(piece) ELSE piece
    IN  IF l1 # <<>> /\ Last(l1) = CR /\ (hadLF \/ legacy) THEN Front(l1) ELSE l1

Lines(s, legacy) ==
    LET pieces == SplitInclusive(s, <<>>, <<>>)
    IN  [i \in 1..Len(pieces) |-> StripLine(pieces[i], legacy)]

----------------------------------------------------------------------------
(* probe_r_paths                                                           *)

NoPaths == [r_home |-> <<>>, include |-> <<>>, library |-> <<>>]
Ok(p) == [tag |-> "Ok", msg |-> "", paths |-> p]
Err(m) == [tag |-> "Err", msg |-> m, paths |-> NoPaths]
NotReturned == [tag |-> "None", msg |-> "", paths |-> NoPaths]

NoOutput == [kind |-> "none", status |-> 0, out |-> <<>>]

\* the directory of the shared library under R_HOME
LibraryDir == IF windows THEN StrBin ELSE StrLib

\* the R.home(...) component the -e expression asks for as third line
ProbeExpr == IF windows THEN "bin" ELSE "lib"

PathsFromHome(r_home) ==
    [r_home |-> r_home,
     include |-> PathJoin(r_home, StrInclude),
     library |-> PathJoin(r_home, LibraryDir)]

\* mutant: the second missing line reported as the first
ParseProbeOutput_WrongField(lines) ==
    IF Len(lines) < 2 THEN Err("Cannot find R home")
    ELSE IF Len(lines) < 3 THEN Err("Cannot find R library")
    ELSE Ok([r_home |-> lines[1], include |-> lines[2], library |-> lines[3]])

ParseProbeOutput(lines) ==
    IF Len(lines) < 1 THEN Err("Cannot find R home")
    ELSE IF Len(lines) < 2 THEN Err("Cannot find R include")
    ELSE IF Len(lines) < 3 THEN Err("Cannot find R library")
    ELSE Ok([r_home |-> lines[1], include |-> lines[2], library |-> lines[3]])

\* R_HOME: unset, "", "/", "a", "a/", "/a", "/a\" and a value that is not UTF-8
HomeValues ==
    {Unset, Raw(<<>>), Raw(<<Slash>>), Raw(<<ChA>>), Raw(<<ChA, Slash>>),
     Raw(<<Slash, ChA>>), Raw(<<Slash, ChA, Backslash>>),
     Raw(<<Slash, BadByte>>)}

OutBytes == {ChA, LF, CR, BadByte}
ExitCodes == {0, 1}

\* what Command::output() can return
Outputs ==
    {[kind |-> "spawn_error", status |-> 0, out |-> <<>>],
     [kind |-> "io_error", status |-> 0, out |-> <<>>]}
    \cup {[kind |-> "output", status |-> c, out |-> o] :
             c \in ExitCodes, o \in SeqsUpTo(OutBytes, MaxOut)}

TargetValues == {Unset, Raw(<<BadByte>>), Raw(<<ChA>>)}
OutDirValues == {Unset, Raw(<<BadByte>>), Raw(<<ChA>>)}
AltDirValues == {Unset, Raw(<<BadByte>>), Raw(<<ChA, ChA>>)}
Unread == [kind |-> "unread", val |-> <<>>]

----------------------------------------------------------------------------
(* Checked u32 arithmetic on two 16-bit limbs (value = hi * 2^16 + lo).    *)

LimbBase == 65536
U32(hi, lo) == [hi |-> hi, lo |-> lo]
NoU32 == [hi |-> -1, lo |-> -1]

\* mutant: the carry out of the low limb is lost (a 16-bit accumulator)
MulAdd10_NoCarry(v, d) ==
    LET lo10 == v.lo * 10 + d
        hi10 == v.hi * 10
    IN  IF hi10 >= LimbBase THEN NoU32 ELSE U32(hi10, lo10 % LimbBase)

\* checked_mul(10) then checked_add(d); NoU32 on overflow
MulAdd10(v, d) ==
    LET lo10 == v.lo * 10 + d
        hi10 == v.hi * 10 + (lo10 \div LimbBase)
    IN  IF hi10 >= LimbBase THEN NoU32 ELSE U32(hi10, lo10 % LimbBase)

\* str::parse::<u32> of a non-empty run of ASCII digits
RECURSIVE ParseFrom(_, _)
ParseFrom(digits, acc) ==
    IF acc = NoU32 THEN NoU32
    ELSE IF digits = <<>> THEN acc
    ELSE ParseFrom(Tail(digits), MulAdd10(acc, Head(digits) - Zero))

ParseU32(digits) == ParseFrom(digits, U32(0, 0))

\* Display of a u32: decimal digits, most significant first
RECURSIVE DisplayFrom(_, _)
DisplayFrom(v, acc) ==
    LET t == (v.hi % 10) * LimbBase + v.lo
        q == U32(v.hi \div 10, t \div 10)
        ds == <<Zero + (t % 10)>> \o acc
    IN  IF q = U32(0, 0) THEN ds ELSE DisplayFrom(q, ds)

DisplayU32(v) == DisplayFrom(v, <<>>)

----------------------------------------------------------------------------
(* The generated bindings, as far as the version pattern                   *)
(*   pub const R_VERSION ?: ?u32 = (\d+)                                   *)
(* can tell them apart: a sequence of `pub const` items                    *)
(*   pub const <name><sp1 spaces>:<sp2 spaces><ty> = <digits>;             *)

Lit7 == <<55>>
Lit007 == <<48, 48, 55>>
Lit402500 == <<52, 48, 50, 53, 48, 48>>
LitU32Max == <<52, 50, 57, 52, 57, 54, 55, 50, 57, 53>>
LitU32MaxPlus1 == <<52, 50, 57, 52, 57, 54, 55, 50, 57, 54>>

Item(name, sp1, sp2, ty, digits) ==
    [name |-> name, sp1 |-> sp1, sp2 |-> sp2, ty |-> ty, digits |-> digits]

Items ==
    {Item("R_NSIZE", 0, 1, "u32", Lit7),
     Item("R_VERSION", 0, 1, "i32", Lit7),
     Item("R_VERSION", 2, 1, "u32", Lit7),
     Item("R_VERSION", 0, 1, "u32", Lit402500),
     Item("R_VERSION", 1, 1, "u32", Lit007),
     Item("R_VERSION", 0, 0, "u32", LitU32Max),
     Item("R_VERSION", 1, 0, "u32", LitU32MaxPlus1)}

\* The generator emits a constant once: no two items of one name.
Sources ==
    {s \in SeqsUpTo(Items, MaxItems) :
        \A i, j \in 1..Len(s) : s[i].name = s[j].name => i = j}

\* the pattern matches at this item
VersionMatches(it) ==
    /\ it.name = "R_VERSION"
    /\ it.sp1 <= 1
    /\ it.sp2 <= 1
    /\ it.ty = "u32"
    /\ Len(it.digits) >= 1

\* Regex::captures: the leftmost match, 0 when there is none
FirstMatch(src) ==
    IF \E i \in 1..Len(src) : VersionMatches(src[i])
    THEN CHOOSE i \in 1..Len(src) :
            /\ VersionMatches(src[i])
            /\ \A j \in 1..(i - 1) : ~VersionMatches(src[j])
    ELSE 0

----------------------------------------------------------------------------
(* main                                                                    *)

Running == [status |-> "running", code |-> 0, panic |-> ""]
Exited(c) == [status |-> "exited", code |-> c, panic |-> ""]
Panicked(m) == [status |-> "exited", code |-> 101, panic |-> m]

Line(key, val) == [key |-> key, val |-> val]

\* a header wrapper.h includes, as CargoCallbacks::include_file reports it
IncludedHeader == <<ChA>>

NoBuilder == [state |-> "none", include |-> <<>>, target |-> <<>>]
NoFile == [state |-> "none", content |-> <<>>]

\* Bindings::write_to_file: the file is created (truncated), then written
WriteResults(src) ==
    {[state |-> "written", content |-> src],
     [state |-> "partial", content |-> <<>>],
     NoFile}

Init ==
    /\ windows \in BOOLEAN
    /\ env \in {[R_HOME |-> h, TARGET |-> Unread, OUT_DIR |-> Unread,
                 LIBRSYS_BINDINGS_DIR |-> Unread] : h \in HomeValues}
    /\ pc = "probe_r_paths"
    /\ rout = NoOutput
    /\ probe = NotReturned
    /\ details = NoPaths
    /\ spawned = <<>>
    /\ stdout = <<>>
    /\ builder = NoBuilder
    /\ generated = 0
    /\ bindings = <<>>
    /\ files = [primary |-> NoFile, secondary |-> NoFile]
    /\ exit = Running

\* R_HOME is set (and readable as a String): standard layout, no subprocess
ProbeFromEnv ==
    /\ pc = "probe_r_paths"
    /\ EnvVarIsOk(env.R_HOME)
    /\ probe' = Ok(PathsFromHome(env.R_HOME.val))
    /\ pc' = "probed"
    /\ UNCHANGED <<windows, env, rout, details, spawned, stdout, builder,
                   generated, bindings, files, exit>>

\* otherwise: run R and read three lines of its standard output
ProbeFromR ==
    /\ pc = "probe_r_paths"
    /\ ~EnvVarIsOk(env.R_HOME)
    /\ \E o \in Outputs, legacy \in BOOLEAN :
          /\ rout' = o
          /\ probe' = IF o.kind = "output"
                      THEN ParseProbeOutput(Lines(FromUtf8Lossy(o.out), legacy))
                      ELSE Err(o.kind)
    /\ spawned' = Append(spawned, ProbeExpr)
    /\ pc' = "probed"
    /\ UNCHANGED <<windows, env, details, stdout, builder, generated,
                   bindings, files, exit>>

\* mutant: the diagnostic is printed but main goes on
MainProbeFailed_NoExit ==
    /\ pc = "probed"
    /\ probe.tag = "Err"
    /\ stdout' = Append(stdout, Line("Problem locating local R instal: ", <<>>))
    /\ pc' = "configure"
    /\ rout' = NoOutput
    /\ UNCHANGED <<windows, env, probe, details, spawned, builder, generated,
                   bindings, files, exit>>

\* main, lines 72-78: discovery failed
MainProbeFailed ==
    /\ pc = "probed"
    /\ probe.tag = "Err"
    /\ stdout' = Append(stdout, Line("Problem locating local R instal: ", <<>>))
    /\ exit' = Exited(1)
    /\ pc' = "done"
    /\ rout' = NoOutput
    /\ UNCHANGED <<windows, env, probe, details, spawned, builder, generated,
                   bindings, files>>

\* main, lines 72-87: the cargo signals
EmitSignals ==
    /\ pc = "probed"
    /\ probe.tag = "Ok"
    /\ details' = probe.paths
    /\ stdout' = stdout \o
         <<Line("cargo:rustc-env=R_HOME=", probe.paths.r_home),
           Line("cargo:r_home=", probe.paths.r_home),
           Line("cargo:rustc-link-search=", probe.paths.library),
           Line("cargo:rustc-link-lib=dylib=R", <<>>),
           Line("cargo:rerun-if-changed=build.rs", <<>>),
           Line("cargo:rerun-if-changed=wrapper.h", <<>>)>>
    /\ pc' = "configure"
    /\ rout' = NoOutput
    /\ UNCHANGED <<windows, env, probe, spawned, builder, generated, bindings,
                   files, exit>>

\* mutant: a missing TARGET is replaced by an empty triple
ConfigureBuilder_DefaultTarget ==
    /\ pc = "configure"
    /\ \E t \in TargetValues :
          /\ env' = [env EXCEPT !.TARGET = t]
          /\ builder' = [state |-> "configured",
                         include |-> details.include,
                         target |-> IF EnvVarIsOk(t) THEN t.val ELSE <<>>]
          /\ pc' = "generate"
    /\ UNCHANGED <<windows, rout, probe, details, spawned, stdout, generated,
                   bindings, files, exit>>

\* main, lines 92-111: the builder, with -I<include> and --target=$TARGET
ConfigureBuilder ==
    /\ pc = "configure"
    /\ \E t \in TargetValues :
          /\ env' = [env EXCEPT !.TARGET = t]
          /\ IF EnvVarIsOk(t)
             THEN /\ builder' = [state |-> "configured",
                                 include |-> details.include,
                                 target |-> t.val]
                  /\ pc' = "generate"
                  /\ exit' = exit
             ELSE /\ builder' = builder
                  /\ pc' = "done"
                  /\ exit' = Panicked("Could not get the target triple")
    /\ UNCHANGED <<windows, rout, probe, details, spawned, stdout, generated,
                   bindings, files>>

\* main, lines 114-117: generate; CargoCallbacks announces included headers
Generate ==
    /\ pc = "generate"
    /\ generated' = generated + 1
    /\ stdout' = Append(stdout, Line("cargo:rerun-if-changed=", IncludedHeader))
    /\ \/ \E src \in Sources :
             /\ bindings' = src
             /\ pc' = "version"
             /\ exit' = exit
       \/ /\ bindings' = bindings
          /\ pc' = "done"
          /\ exit' = Panicked("Unable to generate bindings")
    /\ UNCHANGED <<windows, env, rout, probe, details, spawned, builder, files>>

\* mutant: version 0 when the pattern is not found
ExtractVersion_DefaultZero ==
    /\ pc = "version"
    /\ LET m == FirstMatch(bindings)
           v == IF m = 0 THEN U32(0, 0) ELSE ParseU32(bindings[m].digits)
       IN  IF v = NoU32
           THEN /\ exit' = Panicked("unwrap on Err")
                /\ pc' = "done"
                /\ stdout' = stdout
           ELSE /\ stdout' = Append(stdout, Line("cargo:r_version=", DisplayU32(v)))
                /\ pc' = "write_primary"
                /\ exit' = exit
    /\ UNCHANGED <<windows, env, rout, probe, details, spawned, builder,
                   generated, bindings, files>>

\* main, lines 120-126: the R_VERSION constant
ExtractVersion ==
    /\ pc = "version"
    /\ LET m == FirstMatch(bindings)
           v == IF m = 0 THEN NoU32 ELSE ParseU32(bindings[m].digits)
       IN  IF m = 0
           THEN /\ exit' = Panicked("failed to find R_VERSION")
                /\ pc' = "done"
                /\ stdout' = stdout
           ELSE IF v = NoU32
           THEN /\ exit' = Panicked("unwrap on Err")
                /\ pc' = "done"
                /\ stdout' = stdout
           ELSE /\ stdout' = Append(stdout, Line("cargo:r_version=", DisplayU32(v)))
                /\ pc' = "write_primary"
                /\ exit' = exit
    /\ UNCHANGED <<windows, env, rout, probe, details, spawned, builder,
                   generated, bindings, files>>

\* main, lines 129-133: $OUT_DIR/bindings.rs
WritePrimary ==
    /\ pc = "write_primary"
    /\ \E o \in OutDirValues :
          /\ env' = [env EXCEPT !.OUT_DIR = o]
          /\ IF EnvVarIsOk(o)
             THEN \E w \in WriteResults(bindings) :
                     /\ files' = [files EXCEPT !.primary = w]
                     /\ IF w.state = "written"
                        THEN pc' = "write_secondary" /\ exit' = exit
                        ELSE /\ pc' = "done"
                             /\ exit' = Panicked("Could not write bindings to default output path")
             ELSE /\ files' = files
                  /\ pc' = "done"
                  /\ exit' = Panicked("unwrap on Err")
    /\ UNCHANGED <<windows, rout, probe, details, spawned, stdout, builder,
                   generated, bindings>>

\* mutant: the second write is best effort
WriteSecondary_BestEffort ==
    /\ pc = "write_secondary"
    /\ \E a \in AltDirValues :
          /\ env' = [env EXCEPT !.LIBRSYS_BINDINGS_DIR = a]
          /\ IF EnvVarIsOk(a)
             THEN \E w \in WriteResults(bindings) :
                     files' = [files EXCEPT !.secondary = w]
             ELSE files' = files
    /\ exit' = Exited(0)
    /\ pc' = "done"
    /\ UNCHANGED <<windows, rout, probe, details, spawned, stdout, builder,
                   generated, bindings>>

\* main, lines 137-145: $LIBRSYS_BINDINGS_DIR/bindings.rs, then return
WriteSecondary ==
    /\ pc = "write_secondary"
    /\ \E a \in AltDirValues :
          /\ env' = [env EXCEPT !.LIBRSYS_BINDINGS_DIR = a]
          /\ IF EnvVarIsOk(a)
             THEN \E w \in WriteResults(bindings) :
                     /\ files' = [files EXCEPT !.secondary = w]
                     /\ exit' = IF w.state = "written"
                                THEN Exited(0)
                                ELSE Panicked("Could not write bindings to LIBRSYS_BINDINGS_DIR")
             ELSE /\ files' = files
                  /\ exit' = Exited(0)
    /\ pc' = "done"
    /\ UNCHANGED <<windows, rout, probe, details, spawned, stdout, builder,
                   generated, bindings>>

Next ==
    \/ ProbeFromEnv
    \/ ProbeFromR
    \/ MainProbeFailed
    \/ EmitSignals
    \/ ConfigureBuilder
    \/ Generate
    \/ ExtractVersion
    \/ WritePrimary
    \/ WriteSecondary

Spec == Init /\ [][Next]_vars

----------------------------------------------------------------------------
(* Vocabulary of the properties.  These definitions restate what the       *)
(* properties talk about directly on the raw inputs and outputs; none of   *)
(* them uses the operators that model the script.                          *)

SpawnedR == spawned # <<>>
Returned == pc # "probe_r_paths"
Succeeded == exit.status = "exited" /\ exit.code = 0
Terminated == exit.status = "exited"

DiagKey == "Problem locating local R instal: "
VersionKey == "cargo:r_version="
VersionLines == {i \in 1..Len(stdout) : stdout[i].key = VersionKey}
CargoLines == {i \in 1..Len(stdout) : stdout[i].key # DiagKey}
FilesUntouched == files.primary.state = "none" /\ files.secondary.state = "none"

\* h followed by comp, with at most one separator in between
JoinedWith(p, h, comp) ==
    p \in {h \o comp, h \o <<Slash>> \o comp, h \o <<Backslash>> \o comp}

\* the output of R cut at its "\n" bytes
LFs(out) == {i \in 1..Len(out) : out[i] = LF}
LineCount(out) ==
    Cardinality(LFs(out)) + (IF out # <<>> /\ out[Len(out)] # LF THEN 1 ELSE 0)
NthLF(out, n) ==
    CHOOSE i \in LFs(out) : Cardinality({j \in LFs(out) : j < i}) = n - 1
\* the n-th line, without "\n" or "\r\n"
RawLine(out, n) ==
    LET from == IF n = 1 THEN 1 ELSE NthLF(out, n - 1) + 1
        ended == Cardinality(LFs(out)) >= n
        to == IF ended THEN NthLF(out, n) - 1 ELSE Len(out)
        crlf == ended /\ to >= from /\ out[to] = CR
    IN  SubSeq(out, from, IF crlf THEN to - 1 ELSE to)
IsText(l) == l # <<>> /\ \A i \in 1..Len(l) : l[i] \notin {LF, CR}
ThreeTextLines(out) ==
    /\ LineCount(out) = 3
    /\ \A n \in 1..3 : IsText(RawLine(out, n))
Utf8Replaced(l) == [i \in 1..Len(l) |-> IF l[i] >= 128 THEN Replacement ELSE l[i]]

\* an item is the version-constant declaration the pattern describes
IsVersionDecl(it) ==
    /\ it.name = "R_VERSION" /\ it.ty = "u32"
    /\ it.sp1 \in {0, 1} /\ it.sp2 \in {0, 1}
    /\ it.digits # <<>>
VersionDecls == {i \in 1..Len(bindings) : IsVersionDecl(bindings[i])}
RECURSIVE Canonical(_)
Canonical(d) == IF Len(d) > 1 /\ Head(d) = Zero THEN Canonical(Tail(d)) ELSE d
LeqLex(a, b) ==
    a = b \/ \E i \in 1..Len(a) : a[i] < b[i] /\ \A j \in 1..(i - 1) : a[j] = b[j]
InU32Range(d) ==
    LET c == Canonical(d)
    IN  Len(c) < Len(LitU32Max) \/ (Len(c) = Len(LitU32Max) /\ LeqLex(c, LitU32Max))
VersionStepOver == pc \in {"write_primary", "write_secondary", "done"}

----------------------------------------------------------------------------
(* C1: whenever R_HOME is set to a value h, probe_r_paths succeeds with    *)
(* home = h, include = h joined with "include", library = h joined with    *)
(* "lib" (non-Windows) or "bin" (Windows), and R is never spawned.         *)
(* Violated: a value of R_HOME that is not valid Unicode makes env::var    *)
(* fail, and the script runs R although R_HOME is set.                     *)
C1_HomeSetNeverSpawns ==
    (Returned /\ env.R_HOME.kind = "set") =>
        /\ ~SpawnedR
        /\ probe.tag = "Ok"
        /\ probe.paths.r_home = env.R_HOME.val
        /\ JoinedWith(probe.paths.include, env.R_HOME.val, StrInclude)
        /\ JoinedWith(probe.paths.library, env.R_HOME.val,
                      IF windows THEN StrBin ELSE StrLib)

\* the same restricted to values of R_HOME that are valid Unicode (holds)
C1_Utf8HomeNeverSpawns ==
    (Returned /\ env.R_HOME.kind = "set"
        /\ \A i \in 1..Len(env.R_HOME.val) : env.R_HOME.val[i] < 128) =>
        /\ ~SpawnedR
        /\ probe.tag = "Ok"
        /\ probe.paths.r_home = env.R_HOME.val
        /\ JoinedWith(probe.paths.include, env.R_HOME.val, StrInclude)
        /\ JoinedWith(probe.paths.library, env.R_HOME.val,
                      IF windows THEN StrBin ELSE StrLib)

(* C2: when R was run and printed n < 3 lines, probe_r_paths returns the   *)
(* error of the first missing field (0: home, 1: include, 2: library), and *)
(* no InstallationPaths value comes from fewer than three lines.           *)
C2_FirstMissingField ==
    (pc = "probed" /\ rout.kind = "output") =>
        LET n == LineCount(rout.out)
        IN  /\ n = 0 => probe = [tag |-> "Err", msg |-> "Cannot find R home", paths |-> NoPaths]
            /\ n = 1 => probe = [tag |-> "Err", msg |-> "Cannot find R include", paths |-> NoPaths]
            /\ n = 2 => probe = [tag |-> "Err", msg |-> "Cannot find R library", paths |-> NoPaths]
            /\ probe.tag = "Ok" => n >= 3

C2_Witness ==
    /\ pc = "probed" /\ rout.kind = "output" /\ env.R_HOME.kind = "unset"
    /\ LineCount(rout.out) = 2
    /\ probe.msg = "Cannot find R library"

(* C3 as stated: three non-empty lines l1, l2, l3 printed by R give        *)
(* home = l1, include = l2, library = l3 with no change to the contents    *)
(* other than the removal of the line terminators.                         *)
(* Violated: from_utf8_lossy replaces bytes that are not UTF-8 by U+FFFD.  *)
C3_LinesVerbatim ==
    (pc = "probed" /\ rout.kind = "output" /\ ThreeTextLines(rout.out)) =>
        /\ probe.tag = "Ok"
        /\ probe.paths = [r_home |-> RawLine(rout.out, 1),
                          include |-> RawLine(rout.out, 2),
                          library |-> RawLine(rout.out, 3)]

(* C3 amended: three non-empty lines give home, include, library in that   *)
(* order, the contents changed only by the removal of the line terminators *)
(* and by the replacement of every byte that is not valid UTF-8 by U+FFFD  *)
(* (so lines of valid UTF-8 are taken verbatim).                           *)
C3_LinesUpToUtf8 ==
    (pc = "probed" /\ rout.kind = "output" /\ ThreeTextLines(rout.out)) =>
        /\ probe.tag = "Ok"
        /\ probe.paths = [r_home |-> Utf8Replaced(RawLine(rout.out, 1)),
                          include |-> Utf8Replaced(RawLine(rout.out, 2)),
                          library |-> Utf8Replaced(RawLine(rout.out, 3))]

C3_Witness ==
    /\ pc = "probed" /\ rout.kind = "output" /\ env.R_HOME.kind = "unset"
    /\ ThreeTextLines(rout.out)
    /\ probe.tag = "Ok"
    /\ probe.paths.r_home = <<ChA, ChA>>
    /\ probe.paths.include = <<ChA>>
    /\ probe.paths.library = <<ChA>>

(* C4: probe_r_paths fails whenever running R failed: R could not be       *)
(* started, R ended with a non-zero exit status, or its output could not   *)
(* be read.                                                                *)
(* Violated: the exit status of R is never looked at.                      *)
C4_FailedRunFails ==
    (pc = "probed" /\ SpawnedR
        /\ (rout.kind \in {"spawn_error", "io_error"} \/ rout.status # 0)) =>
        probe.tag = "Err"

(* C5: if discovery fails, main prints the diagnostic and exits with code  *)
(* 1; no cargo signal is printed, the generator is not configured or run,  *)
(* no file is written and R is not run a second time.                      *)
C5_DiscoveryFailureExits ==
    probe.tag = "Err" =>
        /\ CargoLines = {}
        /\ builder = NoBuilder /\ generated = 0
        /\ FilesUntouched
        /\ Len(spawned) <= 1
        /\ pc \in {"probed", "done"}
        /\ pc = "done" =>
              /\ exit = [status |-> "exited", code |-> 1, panic |-> ""]
              /\ Len(stdout) = 1 /\ stdout[1].key = DiagKey

C5_Witness ==
    /\ probe.tag = "Err" /\ pc = "done" /\ SpawnedR
    /\ exit.code = 1 /\ Len(stdout) = 1

(* C6: if the generated source has no match of the version pattern, the    *)
(* process ends abnormally: no version signal is printed, neither output   *)
(* file is written, and it never exits successfully.                       *)
C6_NoVersionIsFatal ==
    (generated >= 1 /\ VersionDecls = {}) =>
        /\ VersionLines = {}
        /\ FilesUntouched
        /\ ~Succeeded
        /\ pc \in {"version", "done"}
        /\ pc = "done" => (Terminated /\ exit.code = 101)

C6_Witness ==
    /\ pc = "done" /\ bindings # <<>> /\ VersionDecls = {}
    /\ exit.panic = "failed to find R_VERSION"

(* C7: if the generated source declares the u32 version constant with a    *)
(* literal of value v in the u32 range, the version step prints exactly    *)
(* one version signal, and it is v in decimal.                             *)
C7_VersionExtracted ==
    \A i \in VersionDecls :
        (VersionStepOver /\ InU32Range(bindings[i].digits)) =>
            /\ Cardinality(VersionLines) = 1
            /\ \A k \in VersionLines : stdout[k].val = Canonical(bindings[i].digits)

C7_Witness ==
    /\ VersionStepOver
    /\ \E i \in VersionDecls : bindings[i].digits = LitU32Max /\ i = 2
    /\ \E k \in VersionLines : stdout[k].val = LitU32Max

(* C8: if LIBRSYS_BINDINGS_DIR is set and the write there fails, the       *)
(* process ends abnormally although the primary write succeeded.           *)
C8_SecondaryFailureIsFatal ==
    (pc = "done" /\ env.LIBRSYS_BINDINGS_DIR.kind = "set"
        /\ \A i \in 1..Len(env.LIBRSYS_BINDINGS_DIR.val) :
              env.LIBRSYS_BINDINGS_DIR.val[i] < 128
        /\ files.secondary.state # "written") =>
        /\ Terminated /\ exit.code = 101
        /\ exit.panic = "Could not write bindings to LIBRSYS_BINDINGS_DIR"
        /\ files.primary = [state |-> "written", content |-> bindings]

C8_Witness ==
    /\ pc = "done" /\ env.LIBRSYS_BINDINGS_DIR.kind = "set"
    /\ files.primary.state = "written"
    /\ files.secondary.state = "partial"
    /\ exit.code = 101

(* C9: the steps run in the fixed order locate, signals, target triple     *)
(* and builder, generate, version, primary write, secondary write, each    *)
(* at most once; a failed step ends the process and no later step has an   *)
(* effect; exit code 0 only if every step succeeded.                       *)
StepOrder ==
    <<"probe_r_paths", "probed", "configure", "generate", "version",
      "write_primary", "write_secondary", "done">>
Rank(p) == CHOOSE i \in 1..Len(StepOrder) : StepOrder[i] = p
SignalsEmitted ==
    /\ Len(stdout) >= 6
    /\ stdout[1].key = "cargo:rustc-env=R_HOME="
    /\ stdout[2].key = "cargo:r_home="
    /\ stdout[3].key = "cargo:rustc-link-search="
    /\ stdout[4].key = "cargo:rustc-link-lib=dylib=R"
    /\ stdout[5].key = "cargo:rerun-if-changed=build.rs"
    /\ stdout[6].key = "cargo:rerun-if-changed=wrapper.h"
TargetRead == env.TARGET.kind = "set" /\ \A i \in 1..Len(env.TARGET.val) : env.TARGET.val[i] < 128
PipelineState ==
    /\ Len(spawned) <= 1 /\ generated <= 1
    /\ Cardinality(VersionLines) <= 1
    /\ (pc = "done") = Terminated
    /\ Rank(pc) >= Rank("configure") /\ pc # "done" => (probe.tag = "Ok" /\ SignalsEmitted)
    /\ builder.state = "configured" => (probe.tag = "Ok" /\ SignalsEmitted /\ TargetRead)
    /\ generated = 1 => builder.state = "configured"
    /\ bindings # <<>> => generated = 1
    /\ VersionLines # {} => (generated = 1 /\ VersionDecls # {})
    /\ files.primary.state # "none" => VersionLines # {}
    /\ files.secondary.state # "none" => files.primary.state = "written"
    /\ Succeeded =>
          /\ probe.tag = "Ok" /\ SignalsEmitted /\ TargetRead
          /\ builder.state = "configured" /\ generated = 1
          /\ VersionLines # {}
          /\ files.primary.state = "written"
          /\ files.secondary.state \in {"none", "written"}
C9_LinearPipeline ==
    /\ []PipelineState
    /\ [][/\ ~Terminated
          /\ pc' = "done" \/ Rank(pc') = Rank(pc) + 1
          /\ (pc' = "done") = Terminated'
          /\ Len(stdout') >= Len(stdout) /\ SubSeq(stdout', 1, Len(stdout)) = stdout]_vars

C9_Witness ==
    /\ Succeeded /\ files.secondary.state = "written"
    /\ Len(spawned) = 1 /\ generated = 1

(* C10: on success the primary file holds the generated source; if         *)
(* LIBRSYS_BINDINGS_DIR is set the secondary file holds the same content,  *)
(* and if it is not set no secondary file is written.                      *)
(* Violated: a value of LIBRSYS_BINDINGS_DIR that is not valid Unicode     *)
(* makes env::var fail, and the script exits 0 without the second file.    *)
C10_SecondaryCopy ==
    Succeeded =>
        /\ files.primary = [state |-> "written", content |-> bindings]
        /\ env.LIBRSYS_BINDINGS_DIR.kind = "set" => files.secondary = files.primary
        /\ env.LIBRSYS_BINDINGS_DIR.kind # "set" => files.secondary.state = "none"

\* the same with "set" read as "set to valid Unicode" (holds)
C10_Utf8SecondaryCopy ==
    Succeeded =>
        LET a == env.LIBRSYS_BINDINGS_DIR
            usable == a.kind = "set" /\ \A i \in 1..Len(a.val) : a.val[i] < 128
        IN  /\ files.primary = [state |-> "written", content |-> bindings]
            /\ usable => files.secondary = files.primary
            /\ ~usable => files.secondary.state = "none"
====
